---- MODULE Spec2Model ----
(***************************************************************************)
(* A model of the Vispio application: the image preparation functions of   *)
(* utils/image_utils.py, the analysis, chat and speech clients of          *)
(* services/, and the chat tab of app.py that calls them.                  *)
(*                                                                         *)
(* Text is a sequence of one-character strings, so that lower-casing,      *)
(* stripping and substring search are computed, not assumed.  A fixed      *)
(* message produced by a service is a sequence holding that one message.   *)
(***************************************************************************)
EXTENDS Integers, Sequences, FiniteSets, TLC

VARIABLES
    call,                \* the last call of a function of image_utils.py
    chat_image,          \* st.session_state.chat_image
    chat_image_uploaded, \* st.session_state.chat_image_uploaded
    chat_history,        \* st.session_state.chat_history
    turn,                \* what the last click on a button did
    suggested_questions, \* st.session_state.suggested_questions
    current_image,       \* st.session_state.current_image
    image_uploaded,      \* st.session_state.image_uploaded
    generated_caption,   \* st.session_state.generated_caption
    caption_generated,   \* st.session_state.caption_generated
    analysis_type,       \* st.session_state.analysis_type
    audio_file,          \* st.session_state.audio_file
    audio_generated,     \* st.session_state.audio_generated
    final_caption,       \* st.session_state.final_caption
    gcall,               \* the last call of a method of an analysis or chat client
    files,               \* the audio files of AudioService.temp_dir
    acall,               \* the last call of text_to_speech
    package,             \* the services package: its import and its flags
    environ,             \* GEMINI_API_KEY in os.environ
    instances,           \* ServiceFactory._instances
    constructed,         \* how many service objects have been constructed
    fcall                \* the last call of ServiceFactory or of a constructor

vars ==
    <<call, chat_image, chat_image_uploaded, chat_history, turn, suggested_questions,
      current_image, image_uploaded, generated_caption, caption_generated,
      analysis_type, audio_file, audio_generated, final_caption,
      gcall, files, acall, package, environ, instances, constructed, fcall>>

utilVars == <<call>>
chatVars == <<chat_image, chat_image_uploaded, chat_history, turn, suggested_questions>>
captionVars ==
    <<current_image, image_uploaded, generated_caption, caption_generated,
      analysis_type>>
narrationVars == <<audio_file, audio_generated, final_caption>>
sessionVars == <<chatVars, captionVars, narrationVars>>
geminiVars == <<gcall>>
audioVars == <<files, acall>>
factoryVars == <<package, environ, instances, constructed, fcall>>

-----------------------------------------------------------------------------
(* Text: str.lower(), str.strip(), `keyword in question`.                  *)

UpperCase ==
    <<"A", "B", "C", "D", "E", "F", "G", "H", "I", "J", "K", "L", "M",
      "N", "O", "P", "Q", "R", "S", "T", "U", "V", "W", "X", "Y", "Z">>

LowerCase ==
    <<"a", "b", "c", "d", "e", "f", "g", "h", "i", "j", "k", "l", "m",
      "n", "o", "p", "q", "r", "s", "t", "u", "v", "w", "x", "y", "z">>

Whitespace == {" ", "\t", "\n"}

LowerChar(c) ==
    IF \E i \in 1..Len(UpperCase) : UpperCase[i] = c
    THEN LowerCase[CHOOSE i \in 1..Len(UpperCase) : UpperCase[i] = c]
    ELSE c

\* str.lower()
lower(s) == [i \in 1..Len(s) |-> LowerChar(s[i])]

\* The test without .strip()
IsNonEmpty(s) == Len(s) > 0

\* bool(s.strip()): some character of s is not whitespace
StripIsNonEmpty(s) == \E i \in 1..Len(s) : s[i] \notin Whitespace

\* `k in s` for strings: k occurs in s as a contiguous substring
Contains(s, k) ==
    \E i \in 1..(Len(s) - Len(k) + 1) : SubSeq(s, i, i + Len(k) - 1) = k

\* any(keyword in question_lower for keyword in keywords)
AnyKeyword(question_lower, keywords) ==
    \E keyword \in keywords : Contains(question_lower, keyword)

-----------------------------------------------------------------------------
(* Images.  An image is its size, its colour mode, whether its pixel data  *)
(* decodes, and what the JPEG encoder makes of it: enc[q] is the length of *)
(* its encoding at quality q, encResized the length of the encoding of a   *)
(* downscaled copy, optFailAt a quality at which the optimizing encoder    *)
(* gives up (0: none).                                                     *)

Modes == {"RGB", "RGBA", "L", "P", "1", "CMYK", "LA"}

\* The modes Pillow's JPEG writer accepts; it raises OSError for the others.
JpegWritable(mode) == mode \in {"1", "L", "RGB", "RGBX", "CMYK", "YCbCr"}

TriedQualities == {95, 85, 75, 65, 55, 45, 35, 25}
EncQualities == TriedQualities \cup {20, 70, 80}

SmallLen == 700000
BigLen == 3000000

\* Encodings that fit a budget between SmallLen and BigLen at quality <= t.
StepProfile(t) == [q \in EncQualities |-> IF q <= t THEN SmallLen ELSE BigLen]

\* An encoder whose output does not shrink with the quality.
FlatProfile(len) == [q \in EncQualities |-> len]

EncProfiles ==
    {StepProfile(t) : t \in {20, 25, 55, 80}} \cup {FlatProfile(SmallLen), FlatProfile(BigLen)}

NoImage ==
    [none |-> TRUE, w |-> 0, h |-> 0, mode |-> "RGB", loadOK |-> FALSE,
     enc |-> FlatProfile(SmallLen), encResized |-> SmallLen, optFailAt |-> 0]

MkImage(w, h, mode, loadOK, enc, encResized, optFailAt) ==
    [none |-> FALSE, w |-> w, h |-> h, mode |-> mode, loadOK |-> loadOK,
     enc |-> enc, encResized |-> encResized, optFailAt |-> optFailAt]

-----------------------------------------------------------------------------
(* utils/image_utils.py                                                    *)

MinDimension == 10
MaxPixels == 100000000

valid_modes == {"RGB", "RGBA", "L", "P", "1"}

\* validate_image with the first comparison off by one (<= for <).
validate_image_strict(image) ==
    IF image.none THEN FALSE
    ELSE IF image.w <= MinDimension \/ image.h <= MinDimension THEN FALSE
    ELSE IF image.w * image.h > MaxPixels THEN FALSE
    ELSE IF image.mode \notin valid_modes THEN FALSE
    ELSE IF ~image.loadOK THEN FALSE
    ELSE TRUE

\* validate_image: every early return of the function, in its order.  Any
\* exception is caught by the outer handler, which returns False.
validate_image(image) ==
    IF image.none THEN FALSE
    ELSE IF image.w < MinDimension \/ image.h < MinDimension THEN FALSE
    ELSE IF image.w * image.h > MaxPixels THEN FALSE
    ELSE IF image.mode \notin valid_modes THEN FALSE
    ELSE IF ~image.loadOK THEN FALSE
    ELSE TRUE

\* Lines 70-79: anything but RGB is converted to RGB.
ConvertToRGB(image) == [image EXCEPT !.mode = "RGB"]

\* Lines 86-92.  scale_factor = min(max_w / w, max_h / h, 1.0); the new size
\* is int(w * scale_factor), int(h * scale_factor), computed here in exact
\* arithmetic: the width ratio is the smaller one iff max_w * h <= max_h * w.
\* (In floating point a product that falls just short of an integer
\* truncates to one less; the bounds of the result are the same.)
ScaledSize(w, h, max_w, max_h) ==
    IF max_w * h <= max_h * w
    THEN <<max_w, (h * max_w) \div w>>
    ELSE <<(w * max_h) \div h, max_h>>

\* resize_image.  Image.resize raises ValueError("height and width must be
\* > 0") for a size with a zero, and w = 0 or h = 0 divides by zero; the
\* handler of line 100 then returns the image as it is at that point.
resize_image(image, max_size) ==
    LET converted == ConvertToRGB(image)
        max_w == max_size[1]
        max_h == max_size[2]
    IN  IF converted.w = 0 \/ converted.h = 0 THEN converted
        ELSE IF max_w < converted.w \/ max_h < converted.h
        THEN LET new == ScaledSize(converted.w, converted.h, max_w, max_h)
             IN  IF new[1] < 1 \/ new[2] < 1
                 THEN converted
                 ELSE [converted EXCEPT !.w = new[1], !.h = new[2],
                                        !.enc = FlatProfile(image.encResized)]
        ELSE converted

\* image.save(buffer, format='JPEG', quality=q, optimize=True) raises
SaveOptimizedRaises(image, q) == ~JpegWritable(image.mode) \/ image.optFailAt = q

Bytes(len, quality, path) == [kind |-> "bytes", len |-> len, quality |-> quality, path |-> path]
Raised == [kind |-> "raise", len |-> 0, quality |-> 0, path |-> "except"]

FirstQuality == 95
QualityStep == 10
QualityFloor == 20
FallbackSize == <<800, 600>>
FallbackQuality == 80
ExceptQuality == 70

\* Lines 135-142: the loop found nothing; resize and encode once more.
ResizeFallback(image) ==
    LET resized_image == resize_image(image, FallbackSize)
    IN  IF SaveOptimizedRaises(resized_image, FallbackQuality)
        THEN [kind |-> "exception"]
        ELSE Bytes(resized_image.enc[FallbackQuality], FallbackQuality, "resize")

\* One encoding at the first quality, and the resize when it does not fit.
QualityLoopOnce(image, max_file_size_bytes, quality) ==
    IF SaveOptimizedRaises(image, quality)
    THEN [kind |-> "exception"]
    ELSE IF image.enc[quality] <= max_file_size_bytes
         THEN Bytes(image.enc[quality], quality, "loop")
         ELSE ResizeFallback(image)

\* Lines 121-133: the qualities image.save is called with inside the loop,
\* in the order of the calls: the loop is left by the return of line 130,
\* by what save raises, or by its condition.
RECURSIVE QualitiesEncoded(_, _, _)
QualitiesEncoded(image, max_file_size_bytes, quality) ==
    IF quality >= QualityFloor
    THEN IF SaveOptimizedRaises(image, quality) \/ image.enc[quality] <= max_file_size_bytes
         THEN <<quality>>
         ELSE <<quality>> \o QualitiesEncoded(image, max_file_size_bytes,
                                                quality - QualityStep)
    ELSE <<>>

\* Lines 121-133: while quality >= 20, encode, return on a fit, quality -= 10.
RECURSIVE QualityLoop(_, _, _)
QualityLoop(image, max_file_size_bytes, quality) ==
    IF quality >= QualityFloor
    THEN IF SaveOptimizedRaises(image, quality)
         THEN [kind |-> "exception"]
         ELSE IF image.enc[quality] <= max_file_size_bytes
              THEN Bytes(image.enc[quality], quality, "loop")
              ELSE QualityLoop(image, max_file_size_bytes, quality - QualityStep)
    ELSE ResizeFallback(image)

\* Lines 144-149: the handler encodes the image it was given at quality 70,
\* without optimize; what that raises reaches the caller.
ExceptFallback(image) ==
    IF JpegWritable(image.mode)
    THEN Bytes(image.enc[ExceptQuality], ExceptQuality, "except")
    ELSE Raised

BytesPerMb == 1048576

\* A budget is a number of quarter megabytes, or a float that int() refuses
\* (nan, inf): int(max_file_size_mb * 1024 * 1024) then raises.
Budget(quarters) == [finite |-> TRUE, quarters |-> quarters]
NanBudget == [finite |-> FALSE, quarters |-> 0]

optimize_image_for_api(image, max_file_size_mb) ==
    LET tried ==
            IF ~max_file_size_mb.finite THEN [kind |-> "exception"]
            ELSE QualityLoop(image, (max_file_size_mb.quarters * BytesPerMb) \div 4, FirstQuality)
    IN  IF tried.kind = "exception" THEN ExceptFallback(image) ELSE tried

-----------------------------------------------------------------------------
(* The calls of image_utils.py, on sampled inputs.                         *)

Dims == {0, 9, 10, 100, 600, 800, 1024, 10000, 10001, 40000}
MaxSizes == {<<800, 600>>, <<400, 300>>, <<1024, 1024>>, <<50, 50>>}
Budgets == {Budget(2), Budget(4), Budget(8), Budget(16), NanBudget}
Shapes == {<<100, 100>>, <<1920, 1080>>, <<10000, 10>>}

ValidateInputs ==
    {NoImage} \cup
    {MkImage(w, h, m, l, FlatProfile(SmallLen), SmallLen, 0) :
        w \in Dims, h \in Dims, m \in Modes, l \in BOOLEAN}

ResizeInputs ==
    {MkImage(w, h, m, TRUE, FlatProfile(BigLen), SmallLen, 0) :
        w \in Dims \ {0, 9}, h \in Dims \ {0, 9}, m \in {"RGB", "RGBA", "L"}}

OptimizeInputs ==
    {MkImage(s[1], s[2], m, TRUE, e, r, f) :
        s \in Shapes, m \in Modes, e \in EncProfiles, r \in {SmallLen, BigLen},
        f \in {0, 95, 80}}

NoCall == [op |-> "none"]

Validate ==
    /\ call = NoCall
    /\ \E image \in ValidateInputs :
         call' = [op |-> "validate_image", image |-> image,
                  result |-> validate_image(image)]
    /\ UNCHANGED <<sessionVars, geminiVars, audioVars, factoryVars>>

Resize ==
    /\ call = NoCall
    /\ \E image \in ResizeInputs, max_size \in MaxSizes :
         call' = [op |-> "resize_image", image |-> image, max_size |-> max_size,
                  result |-> resize_image(image, max_size)]
    /\ UNCHANGED <<sessionVars, geminiVars, audioVars, factoryVars>>

Optimize ==
    /\ call = NoCall
    /\ \E image \in OptimizeInputs, max_file_size_mb \in Budgets :
         call' = [op |-> "optimize_image_for_api", image |-> image,
                  budget |-> max_file_size_mb,
                  encoded |-> IF max_file_size_mb.finite
                              THEN QualitiesEncoded(image,
                                       (max_file_size_mb.quarters * BytesPerMb) \div 4,
                                       FirstQuality)
                              ELSE <<>>,
                  result |-> optimize_image_for_api(image, max_file_size_mb)]
    /\ UNCHANGED <<sessionVars, geminiVars, audioVars, factoryVars>>

\* The caller is done with the result.
Return ==
    /\ call # NoCall
    /\ call' = NoCall
    /\ UNCHANGED <<sessionVars, geminiVars, audioVars, factoryVars>>

NextUtils == Validate \/ Resize \/ Optimize \/ Return

-----------------------------------------------------------------------------
(* services/chatbot_service.py.  The upstream call answers with a text,    *)
(* with an empty text, or raises; every method catches what is raised.     *)

Outcomes == {"text", "empty", "raise"}

\* The outcomes drawn in the chat session.
ChatOutcomes == {"text", "raise"}

AnswerText == <<"It shows a market square.">>

ContextWindow == 5

RoleLabel(role) == IF role = "user" THEN "User" ELSE "Assistant"

\* chat_history[-5:] written as chat_history: the whole history is sent.
WindowFromStart(n) == 1

\* The first index of chat_history[-5:] in a history of n messages.
WindowFrom(n) == IF n > ContextWindow THEN n - ContextWindow + 1 ELSE 1

\* Lines 50-54 and 98-102: the lines of conversation_context, built from
\* chat_history[-5:].
ConversationContext(history) ==
    LET n == Len(history)
        from == WindowFrom(n)
    IN  [i \in 1..(n - from + 1) |->
            <<RoleLabel(history[from + i - 1].role), history[from + i - 1].content>>]

\* What a method sends to the model: its template, the context lines, the
\* current question, and whether the image goes with it.
Request(template, context, question, image) ==
    [template |-> template, context |-> context, question |-> question, image |-> image]

NoRequest == Request("none", <<>>, <<>>, FALSE)

chat_with_image_request(user_message, history) ==
    Request("chat_with_image", ConversationContext(history), user_message, TRUE)

chat_without_image_request(user_message, history) ==
    Request("chat_without_image", ConversationContext(history), user_message, FALSE)

analyze_location_context_request(user_question) ==
    Request("analyze_location_context", <<>>, user_question, TRUE)

analyze_product_context_request(user_question) ==
    Request("analyze_product_context", <<>>, user_question, TRUE)

\* The string a method returns for each upstream outcome.
Reply(template, outcome) ==
    IF outcome = "text" THEN AnswerText
    ELSE IF template \in {"chat_with_image", "chat_without_image"}
    THEN IF outcome = "empty"
         THEN <<"I apologize, but I couldn't generate a response. Please try again.">>
         ELSE <<"Sorry, I encountered an error: ">>
    ELSE IF template = "analyze_location_context"
    THEN IF outcome = "empty"
         THEN <<"I couldn't analyze the location in this image.">>
         ELSE <<"Sorry, I encountered an error analyzing the location: ">>
    ELSE IF outcome = "empty"
         THEN <<"I couldn't analyze the products in this image.">>
         ELSE <<"Sorry, I encountered an error analyzing the products: ">>

\* str.strip()
Strip(s) ==
    LET kept == {i \in 1..Len(s) : s[i] \notin Whitespace}
    IN  IF kept = {} THEN <<>>
        ELSE SubSeq(s, CHOOSE i \in kept : \A j \in kept : i <= j,
                       CHOOSE i \in kept : \A j \in kept : i >= j)

\* [q.strip() for q in lines if q.strip()]
RECURSIVE StrippedLines(_)
StrippedLines(lines) ==
    IF lines = <<>> THEN <<>>
    ELSE IF StripIsNonEmpty(Head(lines))
         THEN <<Strip(Head(lines))>> \o StrippedLines(Tail(lines))
         ELSE StrippedLines(Tail(lines))

MaxQuestions == 4

DefaultQuestions ==
    << <<"What do you see in this image?">>,
       <<"Can you identify the specific location?">>,
       <<"What products or brands can you identify?">>,
       <<"Can you read any text or signs in the image?">> >>

\* get_suggested_questions, lines 141-180: the lines of response.text,
\* stripped, the blank ones dropped, the first four kept; the default
\* questions when there is no text or something was raised.
get_suggested_questions(upstream, lines) ==
    IF upstream = "text"
    THEN LET questions == StrippedLines(lines)
         IN  SubSeq(questions, 1, IF Len(questions) < MaxQuestions
                                  THEN Len(questions) ELSE MaxQuestions)
    ELSE DefaultQuestions

-----------------------------------------------------------------------------
(* services/gemini_service.py.  A call opens the image bytes, asks the     *)
(* model and reads response.text.  Upstream, the bytes may not be an       *)
(* image, the request may raise, the text may be there, be empty, or       *)
(* reading it may raise (a response without candidates or parts).          *)

Upstream == {"text", "empty", "no_text", "request_raises", "bad_image"}

Styles == {"descriptive", "creative", "technical", "simple", "standard"}
MaxTokens == {50, 150, 300}
Temperatures == {1, 7, 10}

\* A dictionary whose "simple" entry repeats the "technical" one.
StylePromptMerged(style) ==
    IF style = "creative" THEN "Create an imaginative and creative caption for this image."
    ELSE IF style \in {"technical", "simple"}
    THEN "Provide a technical analysis of this image."
    ELSE "Provide a detailed, descriptive caption for this image."

\* Lines 49-71: style_prompts.get(style, style_prompts["descriptive"])
StylePrompt(style) ==
    IF style = "creative" THEN "Create an imaginative and creative caption for this image."
    ELSE IF style = "technical" THEN "Provide a technical analysis of this image."
    ELSE IF style = "simple" THEN "Provide a simple, clear caption for this image"
    ELSE "Provide a detailed, descriptive caption for this image."

Returned(field, text, success) ==
    [kind |-> "return", field |-> field, text |-> text, success |-> success]

RaisedToCaller(message) ==
    [kind |-> "raise", field |-> "", text |-> message, success |-> FALSE]

\* generate_caption, lines 47-103: the caption, or an Exception for anything
\* that went wrong, the empty text included (line 95).  The caption is a
\* string: it carries no success flag (success: what a caller reading one
\* would find is modelled as TRUE).
generate_caption(upstream) ==
    IF upstream = "text"
    THEN Returned("", "caption", TRUE)
    ELSE RaisedToCaller("Failed to generate caption: ")

\* The four methods with the empty text reported as a failure.
SpecialisedAnalysisFlagged(field, placeholder, failure, upstream) ==
    IF upstream = "text" THEN Returned(field, "analysis", TRUE)
    ELSE IF upstream = "empty" THEN Returned(field, placeholder, FALSE)
    ELSE Returned(field, failure, FALSE)

\* The four methods without their `except Exception` clause.
SpecialisedAnalysisUncaught(field, placeholder, failure, upstream) ==
    IF upstream = "text" THEN Returned(field, "analysis", TRUE)
    ELSE IF upstream = "empty" THEN Returned(field, placeholder, TRUE)
    ELSE RaisedToCaller(failure)

\* The four specialised analyses: identify_location (lines 155-187),
\* identify_product, comprehensive_analysis, extract_text_and_details.  After
\* a request that did not raise, the result carries response.text, or the
\* placeholder when the text is empty, and "success": True whichever it is;
\* anything raised gives the failure message and "success": False.
SpecialisedAnalysis(field, placeholder, failure, upstream) ==
    IF upstream = "text" THEN Returned(field, "analysis", TRUE)
    ELSE IF upstream = "empty" THEN Returned(field, placeholder, TRUE)
    ELSE Returned(field, failure, FALSE)

identify_location(upstream) ==
    SpecialisedAnalysis("location_analysis", "No location analysis available",
                        "Location analysis failed: ", upstream)

identify_product(upstream) ==
    SpecialisedAnalysis("product_analysis", "No product analysis available",
                        "Product analysis failed: ", upstream)

comprehensive_analysis(upstream) ==
    SpecialisedAnalysis("comprehensive_analysis", "No comprehensive analysis available",
                        "Comprehensive analysis failed: ", upstream)

extract_text_and_details(upstream) ==
    SpecialisedAnalysis("text_analysis", "No text analysis available",
                        "Text extraction failed: ", upstream)

SpecialisedKinds ==
    {"identify_location", "identify_product", "comprehensive_analysis",
     "extract_text_and_details"}

Specialised(kind, upstream) ==
    IF kind = "identify_location" THEN identify_location(upstream)
    ELSE IF kind = "identify_product" THEN identify_product(upstream)
    ELSE IF kind = "comprehensive_analysis" THEN comprehensive_analysis(upstream)
    ELSE extract_text_and_details(upstream)

-----------------------------------------------------------------------------
(* services/gemini_fallback.py and services/chatbot_fallback.py: the same  *)
(* operations over HTTP.  The POST may raise, raise_for_status() may raise *)
(* for the status, response.json() may raise for the body; a body that is  *)
(* JSON is a dictionary that has, or has not, each element of the path     *)
(* candidates[0].content.parts[0].text.                                    *)

Transports == {"post_raises", "http_error", "not_json", "json"}

Json(candidates_key, candidates_len, content_key, parts_key, parts_len, text_key) ==
    [candidates_key |-> candidates_key, candidates_len |-> candidates_len,
     content_key |-> content_key, parts_key |-> parts_key,
     parts_len |-> parts_len, text_key |-> text_key]

\* A response with the whole path.
FullPath == Json(TRUE, 1, TRUE, TRUE, 1, TRUE)

\* FullPath, and the responses that lack one element of it: no candidates
\* key, empty candidates, a candidate without content, content without a
\* parts key, empty parts, a part without text.
Responses ==
    { FullPath,
      Json(FALSE, 0, FALSE, FALSE, 0, FALSE),
      Json(TRUE, 0, FALSE, FALSE, 0, FALSE),
      Json(TRUE, 1, FALSE, FALSE, 0, FALSE),
      Json(TRUE, 1, TRUE, FALSE, 0, FALSE),
      Json(TRUE, 1, TRUE, TRUE, 0, FALSE),
      Json(TRUE, 1, TRUE, TRUE, 1, FALSE) }

\* The response of a call that was not made over HTTP.
NoResponse == Json(FALSE, 0, FALSE, FALSE, 0, FALSE)

\* gemini_fallback.py lines 71-76 (the same lines in every operation of both
\* files): `'candidates' in result and len(result['candidates']) > 0` and
\* `'parts' in content and len(content['parts']) > 0` are tested;
\* result['candidates'][0]['content'] and content['parts'][0]['text'] are
\* read untested, and raise KeyError when the key is missing.
ExtractText(result) ==
    IF result.candidates_key /\ result.candidates_len > 0
    THEN IF ~result.content_key THEN "KeyError"
         ELSE IF result.parts_key /\ result.parts_len > 0
              THEN IF result.text_key THEN "text" ELSE "KeyError"
              ELSE "no_result"
    ELSE "no_result"

\* What an operation returns: the text, its placeholder, or the message of
\* its handler (`except Exception as e: return f"...: {str(e)}"`).
HttpAnswer(transport, response, placeholder, error) ==
    IF transport # "json" THEN error
    ELSE LET extracted == ExtractText(response)
         IN  IF extracted = "text" THEN "answer"
             ELSE IF extracted = "no_result" THEN placeholder
             ELSE error

\* A returned value that carries no success flag: a string, or a dictionary
\* with the one key `field`.
ReturnedNoFlag(field, text) == [kind |-> "return", field |-> field, text |-> text]

\* gemini_fallback.py lines 25-32: style_prompts.get(style.lower(), descriptive)
FallbackStylePrompt(style) ==
    IF style \in {"creative", "Creative"}
    THEN "Create a creative, artistic caption for this image."
    ELSE IF style = "technical" THEN "Provide a technical analysis of this image. Focus on photography aspects"
    ELSE IF style = "simple" THEN "Give a simple, straightforward description of what you see in this image."
    ELSE "Provide a detailed, descriptive caption for this image. Focus on what you see"

fallback_generate_caption(transport, response) ==
    ReturnedNoFlag("", HttpAnswer(transport, response,
                                  "Sorry, I couldn't generate a caption at this time.",
                                  "Error generating caption: "))

\* identify_location (lines 81-131), identify_product (133-183),
\* comprehensive_analysis (185-237), extract_text_and_details (239-290) of
\* GeminiFallbackService: a dictionary with the one key of the text.
FallbackSpecialised(kind, transport, response) ==
    IF kind = "identify_location"
    THEN ReturnedNoFlag("location_analysis",
                        HttpAnswer(transport, response, "Location analysis failed",
                                   "Error analyzing location: "))
    ELSE IF kind = "identify_product"
    THEN ReturnedNoFlag("product_analysis",
                        HttpAnswer(transport, response, "Product analysis failed",
                                   "Error analyzing product: "))
    ELSE IF kind = "comprehensive_analysis"
    THEN ReturnedNoFlag("comprehensive_analysis",
                        HttpAnswer(transport, response, "Comprehensive analysis failed",
                                   "Error in comprehensive analysis: "))
    ELSE ReturnedNoFlag("text_analysis",
                        HttpAnswer(transport, response, "Text extraction failed",
                                   "Error extracting text: "))

ChatKinds ==
    {"chat_with_image", "chat_without_image", "analyze_location_context",
     "analyze_product_context"}

\* chat_with_image, chat_without_image, analyze_location_context and
\* analyze_product_context of ChatbotFallbackService: a string.
FallbackChatAnswer(kind, transport, response) ==
    IF kind = "chat_with_image"
    THEN ReturnedNoFlag("", HttpAnswer(transport, response,
                            "I'm sorry, I couldn't process your question about the image.",
                            "Error processing image chat: "))
    ELSE IF kind = "chat_without_image"
    THEN ReturnedNoFlag("", HttpAnswer(transport, response,
                            "I'm sorry, I couldn't process your question.",
                            "Error processing chat: "))
    ELSE IF kind = "analyze_location_context"
    THEN ReturnedNoFlag("", HttpAnswer(transport, response,
                            "I couldn't analyze the location context in this image.",
                            "Error analyzing location: "))
    ELSE ReturnedNoFlag("", HttpAnswer(transport, response,
                            "I couldn't analyze the product context in this image.",
                            "Error analyzing product: "))

\* A call of a client, as the transport and the caller see it.
ClientCall(service, op, style, prompt, max_tokens, temperature, upstream, response, result) ==
    [service |-> service, op |-> op, style |-> style, prompt |-> prompt,
     max_tokens |-> max_tokens, temperature |-> temperature,
     upstream |-> upstream, response |-> response, result |-> result]

GenerateCaption ==
    /\ gcall = NoCall
    /\ \E style \in Styles, max_tokens \in MaxTokens, temperature \in Temperatures,
          upstream \in Upstream :
         gcall' = ClientCall("GeminiService", "generate_caption", style,
                             StylePrompt(style), max_tokens, temperature,
                             upstream, NoResponse, generate_caption(upstream))
    /\ UNCHANGED <<utilVars, sessionVars, audioVars, factoryVars>>

Analyse ==
    /\ gcall = NoCall
    /\ \E kind \in SpecialisedKinds, upstream \in Upstream :
         gcall' = ClientCall("GeminiService", kind, "", kind, 0, 0,
                             upstream, NoResponse, Specialised(kind, upstream))
    /\ UNCHANGED <<utilVars, sessionVars, audioVars, factoryVars>>

\* GeminiFallbackService.generate_caption
FallbackGenerateCaption ==
    /\ gcall = NoCall
    /\ \E style \in Styles \cup {"Creative"}, max_tokens \in MaxTokens,
          temperature \in Temperatures, transport \in Transports, response \in Responses :
         gcall' = ClientCall("GeminiFallbackService", "generate_caption", style,
                             FallbackStylePrompt(style), max_tokens, temperature,
                             transport, response,
                             fallback_generate_caption(transport, response))
    /\ UNCHANGED <<utilVars, sessionVars, audioVars, factoryVars>>

\* The four specialised analyses of GeminiFallbackService
FallbackAnalyse ==
    /\ gcall = NoCall
    /\ \E kind \in SpecialisedKinds, transport \in Transports, response \in Responses :
         gcall' = ClientCall("GeminiFallbackService", kind, "", kind, 0, 0,
                             transport, response,
                             FallbackSpecialised(kind, transport, response))
    /\ UNCHANGED <<utilVars, sessionVars, audioVars, factoryVars>>

\* The four answer operations of ChatbotFallbackService
FallbackChat ==
    /\ gcall = NoCall
    /\ \E kind \in ChatKinds, transport \in Transports, response \in Responses :
         gcall' = ClientCall("ChatbotFallbackService", kind, "", kind, 0, 0,
                             transport, response,
                             FallbackChatAnswer(kind, transport, response))
    /\ UNCHANGED <<utilVars, sessionVars, audioVars, factoryVars>>

GeminiReturn ==
    /\ gcall # NoCall
    /\ gcall' = NoCall
    /\ UNCHANGED <<utilVars, sessionVars, audioVars, factoryVars>>

NextGemini ==
    \/ GenerateCaption \/ Analyse
    \/ FallbackGenerateCaption \/ FallbackAnalyse \/ FallbackChat
    \/ GeminiReturn

-----------------------------------------------------------------------------
(* The answer operations of ChatbotService, called on their own.           *)

\* What the upstream outcomes come to inside a method: a text, an empty
\* text, or something raised (by Image.open, by generate_content, or by
\* reading response.text).
OutcomeOf(upstream) ==
    IF upstream \in {"text", "empty"} THEN upstream ELSE "raise"

\* A method without its `except Exception` clause.
ChatbotAnswerUncaught(template, upstream) ==
    IF OutcomeOf(upstream) = "raise"
    THEN [kind |-> "raise", field |-> "", text |-> <<>>]
    ELSE ReturnedNoFlag("", Reply(template, OutcomeOf(upstream)))

\* chat_with_image (lines 43-81), chat_without_image (96-129),
\* analyze_location_context (193-230), analyze_product_context (243-287):
\* the whole body is inside try, and the handler returns a string.
ChatbotAnswer(template, upstream) ==
    ReturnedNoFlag("", Reply(template, OutcomeOf(upstream)))

-----------------------------------------------------------------------------
(* services/audio_service.py and services/audio_fallback.py.  A file of    *)
(* the temporary directory is a name and a content; the content of an      *)
(* audio file is its format, the text spoken and the speed, in tenths.     *)

Name(stem, ext) == [stem |-> stem, ext |-> ext]
File(name, content) == [name |-> name, content |-> content]

NormalSpeed == 10

Mp3Of(text) == [format |-> "mp3", text |-> text, speed |-> NormalSpeed]
WavOf(text, speed) == [format |-> "wav", text |-> text, speed |-> speed]
Truncated == [format |-> "none", text |-> <<>>, speed |-> 0]

\* What the world does to a call: the gTTS constructor and its save (the
\* request to the TTS endpoint), pydub's decode, speedup and export (ffmpeg),
\* os.rename and os.remove.
Worlds ==
    [tts : {"ok", "constructor_raises", "save_raises"},
     decode : BOOLEAN, speedup : BOOLEAN, export : BOOLEAN,
     rename : BOOLEAN, remove : BOOLEAN]

Path(name) == [kind |-> "path", name |-> name]
TtsRaised == [kind |-> "raise", name |-> Name("", "")]

Done(result, dir, tts_requests) ==
    [result |-> result, files |-> dir, tts_requests |-> tts_requests]

\* str.lower() of the format names in use
FormatLower(output_format) ==
    IF output_format = "MP3" THEN "mp3"
    ELSE IF output_format = "WAV" THEN "wav"
    ELSE output_format

\* The handler of line 129 with its result raised instead of returned.
ConversionFallbackRaises(dir, world) == Done(TtsRaised, dir, 1)

\* Lines 129-142: the conversion failed; the MP3 is renamed, if that works,
\* and returned.
ConversionFallback(dir, world) ==
    LET temp == CHOOSE f \in dir : f.name = Name("temp_audio", "mp3")
    IN  IF world.rename
        THEN Done(Path(Name("audio", "mp3")),
                  (dir \ {temp}) \cup {File(Name("audio", "mp3"), temp.content)}, 1)
        ELSE Done(Path(temp.name), dir, 1)

\* Lines 103-127: decode, change the speed, export as WAV, remove the MP3.
Convert(text, speed, output_format, dir, world) ==
    LET temp == CHOOSE f \in dir : f.name = Name("temp_audio", "mp3")
        output == Name("audio", output_format)
    IN  IF ~world.decode THEN ConversionFallback(dir, world)
        ELSE IF speed # NormalSpeed /\ ~world.speedup THEN ConversionFallback(dir, world)
        ELSE IF FormatLower(output_format) # "wav" THEN ConversionFallback(dir, world)
        ELSE IF ~world.export
        THEN ConversionFallback(dir \cup {File(output, Truncated)}, world)
        ELSE Done(Path(output),
                  (IF world.remove THEN dir \ {temp} ELSE dir)
                      \cup {File(output, WavOf(text, speed))}, 1)

\* The call without the early return of lines 97-100: every format goes
\* through the conversion.
SynthesizeAlwaysConverts(text, speed, output_format, dir, world) ==
    IF world.tts = "constructor_raises" THEN Done(TtsRaised, dir, 0)
    ELSE IF world.tts = "save_raises"
    THEN Done(TtsRaised, dir \cup {File(Name("temp_audio", "mp3"), Truncated)}, 1)
    ELSE Convert(text, speed, output_format,
                 dir \cup {File(Name("temp_audio", "mp3"), Mp3Of(text))}, world)

\* Lines 69-142: the TTS request, then the MP3 as it is or the conversion.
\* What is raised before the conversion is raised again, as Exception, to
\* the caller.
Synthesize(text, speed, output_format, dir, world) ==
    IF world.tts = "constructor_raises" THEN Done(TtsRaised, dir, 0)
    ELSE IF world.tts = "save_raises"
    THEN Done(TtsRaised, dir \cup {File(Name("temp_audio", "mp3"), Truncated)}, 1)
    ELSE LET saved == dir \cup {File(Name("temp_audio", "mp3"), Mp3Of(text))}
         IN  IF FormatLower(output_format) = "mp3"
             THEN Done(Path(Name("temp_audio", "mp3")), saved, 1)
             ELSE Convert(text, speed, output_format, saved, world)

\* text_to_speech with the check of lines 66-67 left out.
text_to_speech_unchecked(text, speed, output_format, dir, world) ==
    Synthesize(text, speed, output_format, dir, world)

\* AudioService.text_to_speech, lines 65-146: `if not text or not
\* text.strip()` raises ValueError, raised again as Exception.
text_to_speech(text, speed, output_format, dir, world) ==
    IF Len(text) = 0 \/ ~StripIsNonEmpty(text)
    THEN Done(TtsRaised, dir, 0)
    ELSE Synthesize(text, speed, output_format, dir, world)

\* AudioFallbackService.text_to_speech, lines 16-31.  Line 18 asks for the
\* modification time of a name tempfile.mktemp() has just made up: no such
\* file exists, os.path.getmtime raises, and the handler raises Exception
\* before gTTS is reached.
fallback_text_to_speech(text, dir) == Done(TtsRaised, dir, 0)

Texts == {<<>>, <<" ", " ">>, <<"\t">>, <<"h", "i">>, <<" ", "H", "i", " ">>}
Speeds == {5, 10, 15}
Formats == {"wav", "WAV", "mp3", "MP3", "ogg"}

TextToSpeech ==
    /\ acall = NoCall
    /\ files = {}
    /\ \E text \in Texts, speed \in Speeds, output_format \in Formats, world \in Worlds :
         LET done == text_to_speech(text, speed, output_format, files, world)
         IN  /\ acall' = [op |-> "text_to_speech", service |-> "AudioService",
                          text |-> text, speed |-> speed,
                          output_format |-> output_format, world |-> world,
                          result |-> done.result, tts_requests |-> done.tts_requests]
             /\ files' = done.files
    /\ UNCHANGED <<utilVars, sessionVars, geminiVars, factoryVars>>

FallbackTextToSpeech ==
    /\ acall = NoCall
    /\ files = {}
    /\ \E text \in Texts, speed \in Speeds, world \in Worlds :
         LET done == fallback_text_to_speech(text, files)
         IN  /\ acall' = [op |-> "text_to_speech", service |-> "AudioFallbackService",
                          text |-> text, speed |-> speed,
                          output_format |-> "mp3", world |-> world,
                          result |-> done.result, tts_requests |-> done.tts_requests]
             /\ files' = done.files
    /\ UNCHANGED <<utilVars, sessionVars, geminiVars, factoryVars>>

\* The caller has the result.
AudioReturn ==
    /\ acall # NoCall
    /\ acall' = NoCall
    /\ UNCHANGED <<files, utilVars, sessionVars, geminiVars, factoryVars>>

\* cleanup_temp_files, lines 215-224
CleanupTempFiles ==
    /\ acall = NoCall
    /\ files # {}
    /\ files' = {}
    /\ UNCHANGED <<acall, utilVars, sessionVars, geminiVars, factoryVars>>

NextAudio == TextToSpeech \/ FallbackTextToSpeech \/ AudioReturn \/ CleanupTempFiles

-----------------------------------------------------------------------------
(* services/__init__.py: the imports of the package and ServiceFactory.    *)

ServiceKinds == {"gemini", "audio", "chatbot"}

\* GEMINI_API_KEY in the environment: not set, set to "", or set to a key.
Environments == {"unset", "empty", "key"}

\* `not api_key` after os.environ.get("GEMINI_API_KEY")
KeyMissing(env) == env \in {"unset", "empty"}

Package(state, gemini, audio, chatbot) ==
    [state |-> state, GEMINI_AVAILABLE |-> gemini, AUDIO_AVAILABLE |-> audio,
     CHATBOT_AVAILABLE |-> chatbot]

NotImported == Package("not_imported", FALSE, FALSE, FALSE)

\* Lines 6-27.  Each import that raises ImportError clears its flag; only the
\* Gemini one binds a substitute to the name.  The return annotations of
\* get_audio_service and get_chatbot_service name AudioService and
\* ChatbotService: an interpreter that evaluates annotations when the
\* function is defined raises NameError for an unbound one, and the package
\* is not imported; one that defers them defines the class.
ImportServices(gemini, audio, chatbot, deferred_annotations) ==
    IF (~audio \/ ~chatbot) /\ ~deferred_annotations
    THEN Package("NameError", gemini, audio, chatbot)
    ELSE Package("imported", gemini, audio, chatbot)

\* The class bound to the name GeminiService (lines 6-11).
SelectedGeminiService(pkg) ==
    IF pkg.GEMINI_AVAILABLE THEN "GeminiService" ELSE "GeminiFallbackService"

Instance(class, id) == [class |-> class, id |-> id]
NoInstance == Instance("none", 0)

\* Every constructor succeeding, whatever the environment holds.
ConstructUnchecked(class, env) == "ok"

\* The constructors.  GeminiService.__init__ (gemini_service.py lines 13-20)
\* and ChatbotService.__init__ (chatbot_service.py lines 19-26) raise
\* ValueError when the key is missing; AudioService.__init__ and
\* GeminiFallbackService.__init__(api_key) read no environment.
Construct(class, env) ==
    IF class \in {"GeminiService", "ChatbotService"} /\ KeyMissing(env)
    THEN "ValueError"
    ELSE "ok"

Got(instance, cache, cached, made) ==
    [result |-> "instance", instance |-> instance, error |-> "", instances |-> cache,
     cached |-> cached, constructed |-> made]

Failed(error, cache) ==
    [result |-> "raise", instance |-> NoInstance, error |-> error, instances |-> cache,
     cached |-> FALSE, constructed |-> 0]

EmptyCache == [kind \in ServiceKinds |-> NoInstance]

\* `cls._instances[kind] = Class()` without the test `kind not in
\* cls._instances`: every get constructs.
CreateAlways(kind, class, cache, env, id) ==
    IF Construct(class, env) # "ok"
    THEN Failed(Construct(class, env), cache)
    ELSE Got(Instance(class, id), [cache EXCEPT ![kind] = Instance(class, id)], FALSE, 1)

\* `if kind not in cls._instances: cls._instances[kind] = Class()` and
\* `return cls._instances[kind]`: a constructor that raises leaves the
\* dictionary as it was.
GetOrCreate(kind, class, cache, env, id) ==
    IF cache[kind] # NoInstance
    THEN Got(cache[kind], cache, TRUE, 0)
    ELSE IF Construct(class, env) # "ok"
         THEN Failed(Construct(class, env), cache)
         ELSE Got(Instance(class, id), [cache EXCEPT ![kind] = Instance(class, id)], FALSE, 1)

\* Lines 32-45.  Without the library the factory reads the key itself and
\* raises ValueError before it constructs the substitute.
get_gemini_service(pkg, cache, env, id) ==
    IF cache["gemini"] = NoInstance /\ ~pkg.GEMINI_AVAILABLE /\ KeyMissing(env)
    THEN Failed("ValueError", cache)
    ELSE GetOrCreate("gemini", SelectedGeminiService(pkg), cache, env, id)

\* Lines 47-54
get_audio_service(pkg, cache, env, id) ==
    IF ~pkg.AUDIO_AVAILABLE THEN Failed("ImportError", cache)
    ELSE GetOrCreate("audio", "AudioService", cache, env, id)

\* Lines 56-63
get_chatbot_service(pkg, cache, env, id) ==
    IF ~pkg.CHATBOT_AVAILABLE THEN Failed("ImportError", cache)
    ELSE GetOrCreate("chatbot", "ChatbotService", cache, env, id)

get_service(kind, pkg, cache, env, id) ==
    IF kind = "gemini" THEN get_gemini_service(pkg, cache, env, id)
    ELSE IF kind = "audio" THEN get_audio_service(pkg, cache, env, id)
    ELSE get_chatbot_service(pkg, cache, env, id)

MaxInstances == 4

FactoryCall(op, kind, env, done) ==
    [op |-> op, kind |-> kind, env |-> env, result |-> done.result,
     instance |-> done.instance, error |-> done.error, cached |-> done.cached]

\* `import services`
ImportPackage ==
    /\ package = NotImported
    /\ \E gemini \in BOOLEAN, audio \in BOOLEAN, chatbot \in BOOLEAN,
          deferred_annotations \in BOOLEAN :
         package' = ImportServices(gemini, audio, chatbot, deferred_annotations)
    /\ UNCHANGED <<environ, instances, constructed, fcall>>
    /\ UNCHANGED <<utilVars, sessionVars, geminiVars, audioVars>>

\* The key is put into the environment, or taken out of it.
SetApiKey ==
    /\ \E env \in Environments : environ' = env
    /\ UNCHANGED <<package, instances, constructed, fcall>>
    /\ UNCHANGED <<utilVars, sessionVars, geminiVars, audioVars>>

\* ServiceFactory.get_gemini_service(), get_audio_service(),
\* get_chatbot_service()
GetService ==
    /\ package.state = "imported"
    /\ constructed < MaxInstances
    /\ \E kind \in ServiceKinds :
         LET done == get_service(kind, package, instances, environ, constructed + 1)
         IN  /\ fcall' = FactoryCall("get", kind, environ, done)
             /\ instances' = done.instances
             /\ constructed' = constructed + done.constructed
    /\ UNCHANGED <<package, environ>>
    /\ UNCHANGED <<utilVars, sessionVars, geminiVars, audioVars>>

\* ServiceFactory.clear_instances(), lines 65-68
ClearInstances ==
    /\ package.state = "imported"
    /\ instances' = EmptyCache
    /\ fcall' = FactoryCall("clear_instances", "", environ,
                             [result |-> "none", instance |-> NoInstance, error |-> "",
                              cached |-> FALSE])
    /\ UNCHANGED <<package, environ, constructed>>
    /\ UNCHANGED <<utilVars, sessionVars, geminiVars, audioVars>>

\* GeminiService(), AudioService(), ChatbotService() called directly, as
\* app.py lines 94-96 do.
ConstructService ==
    /\ constructed < MaxInstances
    /\ \E class \in {"GeminiService", "AudioService", "ChatbotService"} :
         LET outcome == Construct(class, environ)
             done == IF outcome = "ok"
                     THEN Got(Instance(class, constructed + 1), instances, FALSE, 1)
                     ELSE Failed(outcome, instances)
         IN  /\ fcall' = FactoryCall("construct", class, environ, done)
             /\ constructed' = constructed + done.constructed
    /\ UNCHANGED <<package, environ, instances>>
    /\ UNCHANGED <<utilVars, sessionVars, geminiVars, audioVars>>

NextFactory ==
    ImportPackage \/ SetApiKey \/ GetService \/ ClearInstances \/ ConstructService

-----------------------------------------------------------------------------
(* app.py, the chat tab.                                                   *)

location_keywords ==
    { <<"w", "h", "e", "r", "e">>,
      <<"l", "o", "c", "a", "t", "i", "o", "n">>,
      <<"p", "l", "a", "c", "e">>,
      <<"a", "d", "d", "r", "e", "s", "s">>,
      <<"c", "i", "t", "y">>,
      <<"c", "o", "u", "n", "t", "r", "y">>,
      <<"l", "a", "n", "d", "m", "a", "r", "k">>,
      <<"b", "u", "i", "l", "d", "i", "n", "g">>,
      <<"s", "t", "r", "e", "e", "t">> }

product_keywords ==
    { <<"p", "r", "o", "d", "u", "c", "t">>,
      <<"b", "r", "a", "n", "d">>,
      <<"p", "r", "i", "c", "e">>,
      <<"b", "u", "y">>,
      <<"p", "u", "r", "c", "h", "a", "s", "e">>,
      <<"m", "o", "d", "e", "l">>,
      <<"s", "p", "e", "c", "i", "f", "i", "c", "a", "t", "i", "o", "n">>,
      <<"w", "h", "a", "t", " ", "i", "s", " ", "t", "h", "i", "s">>,
      <<"i", "d", "e", "n", "t", "i", "f", "y">> }

\* The two keyword tests in the other order: product before location.
RouteProductFirst(with_image, user_question) ==
    LET question_lower == lower(user_question)
    IN  IF with_image
        THEN IF AnyKeyword(question_lower, product_keywords)
             THEN "analyze_product_context"
             ELSE IF AnyKeyword(question_lower, location_keywords)
                  THEN "analyze_location_context"
                  ELSE "chat_with_image"
        ELSE "chat_without_image"

\* The keywords tested before the image flag.
RouteKeywordsFirst(with_image, user_question) ==
    LET question_lower == lower(user_question)
    IN  IF AnyKeyword(question_lower, location_keywords)
        THEN "analyze_location_context"
        ELSE IF AnyKeyword(question_lower, product_keywords)
             THEN "analyze_product_context"
             ELSE IF with_image THEN "chat_with_image" ELSE "chat_without_image"

\* The keywords looked for in the question as it was typed.
RouteCaseSensitive(with_image, user_question) ==
    IF with_image
    THEN IF AnyKeyword(user_question, location_keywords)
         THEN "analyze_location_context"
         ELSE IF AnyKeyword(user_question, product_keywords)
              THEN "analyze_product_context"
              ELSE "chat_with_image"
    ELSE "chat_without_image"

\* Lines 734-762: which method of chatbot_service answers the question.
Route(with_image, user_question) ==
    LET question_lower == lower(user_question)
    IN  IF with_image
        THEN IF AnyKeyword(question_lower, location_keywords)
             THEN "analyze_location_context"
             ELSE IF AnyKeyword(question_lower, product_keywords)
                  THEN "analyze_product_context"
                  ELSE "chat_with_image"
        ELSE "chat_without_image"

\* The history passed whole, the message being answered included.
HistoryArgumentWhole(history) == history

\* Lines 755 and 761: st.session_state.chat_history[:-1]
HistoryArgument(history) == SubSeq(history, 1, Len(history) - 1)

\* Every method given the history, the specialised ones included.
RoutedRequestWithHistory(template, user_question, history) ==
    Request(template, ConversationContext(HistoryArgument(history)), user_question,
            template # "chat_without_image")

\* The request of the routed method.
RoutedRequest(template, user_question, history) ==
    IF template = "analyze_location_context" THEN analyze_location_context_request(user_question)
    ELSE IF template = "analyze_product_context" THEN analyze_product_context_request(user_question)
    ELSE IF template = "chat_with_image"
    THEN chat_with_image_request(user_question, HistoryArgument(history))
    ELSE chat_without_image_request(user_question, HistoryArgument(history))

ChatBudget == Budget(8)

Message(role, content) == [role |-> role, content |-> content]

\* The questions typed into the chat input.
QBoth == <<"W", "h", "e", "r", "e", " ", "i", "s", " ", "t", "h", "i", "s", "?", " ", "B", "U", "Y">>
QBuy == <<"B", "u", "y", "e", "r", "s">>
QHi == <<"h", "i">>
QBlank == <<" ", " ">>

Questions == {QBoth, QBuy, QHi, QBlank, <<>>}

\* The files put into an uploader: a photograph, a PNG with an alpha
\* channel, an icon that is too small (9 x 9) and an image of more than
\* 100,000,000 pixels.
ChatUploads ==
    { MkImage(1920, 1080, "RGB", TRUE, StepProfile(55), SmallLen, 0),
      MkImage(100, 100, "RGBA", TRUE, FlatProfile(SmallLen), SmallLen, 0),
      MkImage(9, 9, "RGB", TRUE, FlatProfile(SmallLen), SmallLen, 0),
      MkImage(10001, 10000, "RGB", TRUE, FlatProfile(BigLen), SmallLen, 0) }

MaxHistory == 8
ShortHistory == 2

NoSuggestions == << <<"absent">> >>

\* How far a conversation is followed: to MaxHistory messages in a session
\* that uses nothing but the conversation, to ShortHistory messages in one
\* that also uses the caption tab or the suggested questions.
HistoryBound ==
    IF image_uploaded \/ suggested_questions # NoSuggestions
    THEN ShortHistory
    ELSE MaxHistory

\* What the last click on a button did.  For every button: which one (op),
\* the client methods called, the number of calls made of an external API,
\* and whether the handler's `except` was entered.  For "Send Message"
\* (sent): the question, whether it was blank, whether an image was
\* attached, what image preparation gave, the request made of the model
\* (NoRequest: none), the history as it stood when the request was made,
\* and the history before the click.
NoTurn ==
    [sent |-> FALSE, question |-> <<>>, blank |-> FALSE, image_uploaded |-> FALSE,
     prepared |-> "none", request |-> NoRequest, history_at_call |-> <<>>,
     history_before |-> <<>>, api_calls |-> 0,
     op |-> "none", dispatched |-> {}, raised |-> FALSE]

\* A test of the width alone.
UploadRefusedNarrow(image) == image.w < MinDimension

\* Lines 661-664 and 472-478: the two tests of an uploaded image.
UploadRefused(image) ==
    \/ image.w < MinDimension \/ image.h < MinDimension
    \/ image.w * image.h > MaxPixels

\* Lines 655-672: a file in the chat uploader is opened, checked and stored.
UploadChatImage ==
    /\ \E image \in ChatUploads :
         IF UploadRefused(image)
         THEN UNCHANGED <<chat_image, chat_image_uploaded>>
         ELSE /\ chat_image' = image
              /\ chat_image_uploaded' = TRUE
    /\ UNCHANGED <<chat_history, turn, suggested_questions, captionVars, narrationVars>>
    /\ UNCHANGED <<utilVars, geminiVars, audioVars, factoryVars>>

\* A click on a button other than "Send Message".
Click(op, dispatched, api_calls, raised) ==
    [NoTurn EXCEPT !.op = op, !.dispatched = dispatched, !.api_calls = api_calls,
                   !.raised = raised]

\* Lines 675-682: a click on "Get Suggested Questions".  The response text
\* drawn has seven lines, some blank, some with spaces around them.
GetSuggestedQuestions ==
    /\ chat_image_uploaded
    /\ Len(chat_history) <= ShortHistory
    /\ LET img_bytes == optimize_image_for_api(chat_image, ChatBudget)
       IN  IF img_bytes.kind = "raise"
           THEN /\ turn' = Click("get_suggested_questions", {}, 0, TRUE)
                /\ UNCHANGED suggested_questions
           ELSE \E upstream \in ChatOutcomes, lines \in { << <<" ", "W", "h", "e", "r", "e", "?">>, <<" ">>,
                           <<"B", "r", "a", "n", "d", "?", " ">>, <<>>,
                           <<"c", "?">>, <<"d", "?">>, <<"e", "?">> >> } :
                  /\ suggested_questions' = get_suggested_questions(upstream, lines)
                  /\ turn' = Click("get_suggested_questions",
                                     {"get_suggested_questions"}, 1, FALSE)
    /\ UNCHANGED <<chat_image, chat_image_uploaded, chat_history>>
    /\ UNCHANGED <<captionVars, narrationVars>>
    /\ UNCHANGED <<utilVars, geminiVars, audioVars, factoryVars>>

\* Lines 723-775: a click on "Send Message".
SendMessage ==
    /\ Len(chat_history) + 2 <= HistoryBound
    /\ \E user_question \in Questions, outcome \in ChatOutcomes :
         IF ~StripIsNonEmpty(user_question)
         THEN /\ turn' = [NoTurn EXCEPT !.op = "send_message", !.sent = TRUE,
                                        !.question = user_question, !.blank = TRUE,
                                        !.history_before = chat_history]
              /\ UNCHANGED chat_history
         ELSE LET with_user == Append(chat_history, Message("user", user_question))
                  img_bytes ==
                      IF chat_image_uploaded
                      THEN optimize_image_for_api(chat_image, ChatBudget)
                      ELSE Raised
                  template == Route(chat_image_uploaded, user_question)
                  request == RoutedRequest(template, user_question, with_user)
                  done == [NoTurn EXCEPT !.op = "send_message", !.sent = TRUE,
                                         !.question = user_question,
                                         !.image_uploaded = chat_image_uploaded,
                                         !.history_before = chat_history]
              IN  IF chat_image_uploaded /\ img_bytes.kind = "raise"
                  THEN /\ chat_history' = with_user
                       /\ turn' = [done EXCEPT !.prepared = "raise", !.raised = TRUE]
                  ELSE /\ chat_history' =
                              Append(with_user, Message("assistant", Reply(template, outcome)))
                       /\ turn' = [done EXCEPT
                              !.prepared = IF chat_image_uploaded THEN "bytes" ELSE "none",
                              !.request = request,
                              !.history_at_call = with_user,
                              !.dispatched = {template},
                              !.api_calls = 1]
    /\ UNCHANGED <<chat_image, chat_image_uploaded, suggested_questions,
                   captionVars, narrationVars>>
    /\ UNCHANGED <<utilVars, geminiVars, audioVars, factoryVars>>

\* A clearing that also forgets the chat image.
ClearChatWithImage ==
    /\ chat_history' = <<>>
    /\ suggested_questions' = NoSuggestions
    /\ turn' = Click("clear_chat", {}, 0, FALSE)
    /\ chat_image_uploaded' = FALSE
    /\ UNCHANGED <<chat_image, captionVars, narrationVars>>
    /\ UNCHANGED <<utilVars, geminiVars, audioVars, factoryVars>>

\* Lines 777-782: a click on "Clear Chat".
ClearChat ==
    /\ chat_history' = <<>>
    /\ suggested_questions' = NoSuggestions
    /\ turn' = Click("clear_chat", {}, 0, FALSE)
    /\ UNCHANGED <<chat_image, chat_image_uploaded, captionVars, narrationVars>>
    /\ UNCHANGED <<utilVars, geminiVars, audioVars, factoryVars>>

-----------------------------------------------------------------------------
(* app.py, the caption tab.                                                *)

\* Lines 463-491: a file in the uploader is opened, checked (st.stop() ends
\* the run of a refused one) and stored.
UploadImage ==
    /\ Len(chat_history) <= ShortHistory
    /\ \E image \in ChatUploads :
         IF UploadRefused(image)
         THEN UNCHANGED <<current_image, image_uploaded>>
         ELSE /\ current_image' = image
              /\ image_uploaded' = TRUE
    /\ UNCHANGED <<generated_caption, caption_generated, analysis_type>>
    /\ UNCHANGED <<chatVars, narrationVars, utilVars, geminiVars, audioVars, factoryVars>>

\* Line 500: the options of "Choose Analysis Type".
AnalysisTypes ==
    {"Standard Caption", "Location Analysis", "Product Analysis",
     "Comprehensive Analysis", "Text Extraction"}

\* Lines 512-530: the method each option calls.
MethodOf(selected) ==
    IF selected = "Standard Caption" THEN "generate_caption"
    ELSE IF selected = "Location Analysis" THEN "identify_location"
    ELSE IF selected = "Product Analysis" THEN "identify_product"
    ELSE IF selected = "Comprehensive Analysis" THEN "comprehensive_analysis"
    ELSE IF selected = "Text Extraction" THEN "extract_text_and_details"
    ELSE "generate_caption"

\* A chain of separate `if`s, whose `else` belongs to the last one.
DispatchSeparateIfs(selected) ==
    {MethodOf(selected)}
        \cup (IF selected # "Text Extraction" THEN {"generate_caption"} ELSE {})

\* Lines 512-530: the methods one click calls: the branch of the if/elif
\* chain that the selected option takes.
Dispatch(selected) == {MethodOf(selected)}

CaptionBudget == Budget(8)

\* A key that is not in st.session_state.
Absent == "absent"

\* An `except` that marks the analysis as generated all the same.
GenerateAnalysisExceptMarks ==
    /\ caption_generated' = TRUE
    /\ UNCHANGED <<generated_caption, analysis_type>>

\* Lines 540-541: the `except` of the handler shows the error and stores
\* nothing.
GenerateAnalysisExcept ==
    UNCHANGED <<generated_caption, caption_generated, analysis_type>>

\* Lines 505-542: a click on "Generate Analysis".  The result of a
\* specialised analysis is read with .get(<field>, ...); its success flag
\* is not read.
GenerateAnalysis ==
    /\ image_uploaded
    /\ \E selected \in AnalysisTypes, upstream \in {"text", "request_raises"} :
         LET img_bytes == optimize_image_for_api(current_image, CaptionBudget)
             method == MethodOf(selected)
             result == IF method = "generate_caption"
                       THEN generate_caption(upstream)
                       ELSE Specialised(method, upstream)
         IN  IF img_bytes.kind = "raise"
             THEN /\ turn' = Click("generate_analysis", {}, 0, TRUE)
                  /\ GenerateAnalysisExcept
             ELSE IF result.kind = "raise"
             THEN /\ turn' = Click("generate_analysis", Dispatch(selected),
                                     Cardinality(Dispatch(selected)), TRUE)
                  /\ GenerateAnalysisExcept
             ELSE /\ generated_caption' = result.text
                  /\ caption_generated' = TRUE
                  /\ analysis_type' = selected
                  /\ turn' = Click("generate_analysis", Dispatch(selected),
                                     Cardinality(Dispatch(selected)), FALSE)
    /\ UNCHANGED <<current_image, image_uploaded, narrationVars>>
    /\ UNCHANGED <<chat_image, chat_image_uploaded, chat_history, suggested_questions>>
    /\ UNCHANGED <<utilVars, geminiVars, audioVars, factoryVars>>

\* What the world does to the narration of a session: everything works, or
\* the TTS request fails.
SessionWorlds ==
    { [tts |-> "ok", decode |-> TRUE, speedup |-> TRUE, export |-> TRUE,
       rename |-> TRUE, remove |-> TRUE],
      [tts |-> "save_raises", decode |-> TRUE, speedup |-> TRUE, export |-> TRUE,
       rename |-> TRUE, remove |-> TRUE] }

NoAudioFile == Name("", "")

\* The button shown whatever the session holds.
NarrationAlwaysOffered == TRUE

\* Lines 496 and 545: the narration button is inside `if ... image_uploaded`
\* and `if ... caption_generated`.
NarrationOffered == image_uploaded /\ caption_generated

\* Lines 567-583: a click on "Generate Audio Narration", with the text of
\* the text area as it was generated or blanked by the user.  The files of
\* the call have names of their own (a timestamp and a hash of the text);
\* the session keeps the path.
GenerateAudio ==
    /\ NarrationOffered
    /\ \E edited_caption \in {<<generated_caption>>, <<" ", " ">>}, world \in SessionWorlds :
         LET done == text_to_speech(edited_caption, NormalSpeed, "wav", {}, world)
         IN  IF done.result.kind = "raise"
             THEN /\ turn' = Click("generate_audio",
                                     IF done.tts_requests > 0 THEN {"text_to_speech"} ELSE {},
                                     done.tts_requests, TRUE)
                  /\ UNCHANGED narrationVars
             ELSE /\ audio_file' = done.result.name
                  /\ audio_generated' = TRUE
                  /\ final_caption' = edited_caption
                  /\ turn' = Click("generate_audio", {"text_to_speech"},
                                     done.tts_requests, FALSE)
    /\ UNCHANGED captionVars
    /\ UNCHANGED <<chat_image, chat_image_uploaded, chat_history, suggested_questions>>
    /\ UNCHANGED <<utilVars, geminiVars, audioVars, factoryVars>>

-----------------------------------------------------------------------------
(* The answer operations of ChatbotService, called with a question and a   *)
(* history.                                                                *)

SampleHistories ==
    { <<>>,
      <<Message("user", QHi), Message("assistant", AnswerText)>>,
      <<Message("user", QHi), Message("assistant", AnswerText),
        Message("user", QBuy), Message("assistant", AnswerText),
        Message("user", QBoth), Message("assistant", AnswerText)>> }

ChatbotRequest(kind, question, history) ==
    IF kind = "chat_with_image" THEN chat_with_image_request(question, history)
    ELSE IF kind = "chat_without_image" THEN chat_without_image_request(question, history)
    ELSE IF kind = "analyze_location_context" THEN analyze_location_context_request(question)
    ELSE analyze_product_context_request(question)

\* A call of one of the four methods; chat_without_image opens no image.
ChatAnswer ==
    /\ gcall = NoCall
    /\ \E kind \in ChatKinds, question \in Questions, history \in SampleHistories :
         \E upstream \in IF kind = "chat_without_image"
                          THEN Upstream \ {"bad_image"}
                          ELSE Upstream :
            gcall' = ClientCall("ChatbotService", kind, "",
                                ChatbotRequest(kind, question, history), 0, 0,
                                upstream, NoResponse, ChatbotAnswer(kind, upstream))
    /\ UNCHANGED <<utilVars, sessionVars, audioVars, factoryVars>>

NextChatbot == ChatAnswer \/ GeminiReturn

Init ==
    /\ call = NoCall
    /\ chat_image = NoImage
    /\ chat_image_uploaded = FALSE
    /\ chat_history = <<>>
    /\ turn = NoTurn
    /\ suggested_questions = NoSuggestions
    /\ current_image = NoImage
    /\ image_uploaded = FALSE
    /\ generated_caption = Absent
    /\ caption_generated = FALSE
    /\ analysis_type = Absent
    /\ audio_file = NoAudioFile
    /\ audio_generated = FALSE
    /\ final_caption = <<>>
    /\ gcall = NoCall
    /\ files = {}
    /\ acall = NoCall
    /\ package = NotImported
    /\ environ = "unset"
    /\ instances = EmptyCache
    /\ constructed = 0
    /\ fcall = NoCall

Next ==
    \/ UploadImage \/ GenerateAnalysis \/ GenerateAudio
    \/ UploadChatImage \/ GetSuggestedQuestions \/ SendMessage \/ ClearChat

Spec == Init /\ [][Next]_vars

SpecUtils == Init /\ [][NextUtils]_vars

SpecGemini == Init /\ [][NextGemini]_vars

SpecAudio == Init /\ [][NextAudio]_vars

SpecFactory == Init /\ [][NextFactory]_vars

SpecChatbot == Init /\ [][NextChatbot]_vars

-----------------------------------------------------------------------------
(* Claims about the chat tab, checked under Spec.                          *)

Answered == turn.sent /\ turn.request # NoRequest

IsSuffix(s, t) == Len(s) <= Len(t) /\ s = SubSeq(t, Len(t) - Len(s) + 1, Len(t))

ContextLines(messages) ==
    [i \in 1..Len(messages) |-> <<RoleLabel(messages[i].role), messages[i].content>>]

C2_ContextBounded ==
    Answered =>
        /\ Len(turn.request.context) <= ContextWindow
        /\ ContextWindow <= 10
        /\ IsSuffix(turn.request.context, ContextLines(turn.history_before))
        /\ turn.request.question = turn.question

\* A turn answered with six or more earlier messages: the window is full.
C2_Witness ==
    /\ Answered
    /\ Len(turn.history_before) > ContextWindow
    /\ Len(turn.request.context) = ContextWindow

\* C3 as stated: the message being answered is not in the context and is
\* appended to the history only after the response: when the request is
\* made the history is still the history before the click.
C3_UserMessageAppendedAfterResponse ==
    Answered =>
        /\ IsSuffix(turn.request.context, ContextLines(turn.history_before))
        /\ turn.history_at_call = turn.history_before

\* C3 as amended: the message being answered is appended to the history
\* before the request is made, is left out of the context (which is built
\* from the history before it), and the response is appended after it.
C3_UserMessageAppendedBeforeCall ==
    Answered =>
        /\ turn.history_at_call =
               Append(turn.history_before, Message("user", turn.question))
        /\ turn.request.context =
               IF turn.request.template \in {"chat_with_image", "chat_without_image"}
               THEN ContextLines(SubSeq(turn.history_before,
                                        WindowFrom(Len(turn.history_before)),
                                        Len(turn.history_before)))
               ELSE <<>>
        /\ Len(chat_history) = Len(turn.history_at_call) + 1
        /\ SubSeq(chat_history, 1, Len(turn.history_at_call)) = turn.history_at_call
        /\ chat_history[Len(chat_history)].role = "assistant"

\* A second turn of general chat about the image: the first exchange is the
\* context, the question is in the history when the request is made.
C3_Witness ==
    /\ Answered
    /\ turn.request.template = "chat_with_image"
    /\ Len(turn.history_before) = 2
    /\ Len(turn.request.context) = 2
    /\ Len(turn.history_at_call) = 3

-----------------------------------------------------------------------------
(* Claims about the analysis client, checked under SpecGemini.             *)

Placeholders ==
    {"No location analysis available", "No product analysis available",
     "No comprehensive analysis available", "No text analysis available"}

\* C8 as stated: for every analysis kind, an empty or missing response text
\* gives a result with success = false and a placeholder message, and
\* nothing is raised to the caller.
C8_EmptyTextIsFailureResult ==
    (gcall # NoCall /\ gcall.upstream \in {"empty", "no_text"}) =>
        /\ gcall.result.kind = "return"
        /\ gcall.result.success = FALSE
        /\ gcall.result.text # ""

\* C8 as amended: on an empty or missing response text the four specialised
\* analyses do not raise; they return the placeholder with success = true
\* when the text is empty, and a failure message with success = false when
\* reading the text raises; generate_caption raises to its caller.
C8_EmptyTextBySpecialisedOrCaption ==
    (gcall # NoCall /\ gcall.upstream \in {"empty", "no_text"}) =>
        IF gcall.op \in SpecialisedKinds
        THEN /\ gcall.result.kind = "return"
             /\ gcall.upstream = "empty" =>
                    (gcall.result.success = TRUE /\ gcall.result.text \in Placeholders)
             /\ gcall.upstream = "no_text" =>
                    (gcall.result.success = FALSE /\ gcall.result.text \notin Placeholders
                        /\ gcall.result.text # "")
        ELSE gcall.result.kind = "raise"

\* identify_location on an empty text: the placeholder, flagged a success.
C8_Witness ==
    /\ gcall # NoCall
    /\ gcall.op = "identify_location"
    /\ gcall.upstream = "empty"
    /\ gcall.result = Returned("location_analysis", "No location analysis available", TRUE)

-----------------------------------------------------------------------------
(* Claims about the speech client, checked under SpecAudio.                *)

ConversionFailed(c) ==
    \/ ~c.world.decode
    \/ c.speed # NormalSpeed /\ ~c.world.speedup
    \/ FormatLower(c.output_format) # "wav"
    \/ ~c.world.export

\* C9: text_to_speech with an empty or whitespace-only text fails before any
\* external call: no TTS request is made and no audio file is written.
C9_BlankTextRejectedFirst ==
    (acall # NoCall /\ \A i \in 1..Len(acall.text) : acall.text[i] \in Whitespace) =>
        /\ acall.result.kind = "raise"
        /\ acall.tts_requests = 0
        /\ files = {}

\* AudioService refused a text of two blanks in a world where the TTS
\* endpoint would have answered.
C9_Witness ==
    /\ acall # NoCall
    /\ acall.service = "AudioService"
    /\ acall.text = <<" ", " ">>
    /\ acall.world.tts = "ok"
    /\ acall.result.kind = "raise"

\* C10: once the TTS call has produced the MP3, a conversion that fails at
\* any step does not raise: the call returns a file that holds the MP3 as
\* the TTS call produced it.
C10_ConversionFailureReturnsMp3 ==
    (acall # NoCall /\ acall.service = "AudioService" /\ acall.tts_requests = 1
        /\ acall.world.tts = "ok" /\ FormatLower(acall.output_format) # "mp3"
        /\ ConversionFailed(acall)) =>
            /\ acall.result.kind = "path"
            /\ acall.result.name.ext = "mp3"
            /\ File(acall.result.name, Mp3Of(acall.text)) \in files

\* ffmpeg is missing (the decode fails), WAV was asked for at speed 1.5, and
\* the renamed MP3 came back.
C10_Witness ==
    /\ acall # NoCall /\ acall.service = "AudioService"
    /\ acall.world.tts = "ok" /\ ~acall.world.decode
    /\ acall.output_format = "wav" /\ acall.speed = 15
    /\ acall.result = Path(Name("audio", "mp3"))
    /\ File(Name("audio", "mp3"), Mp3Of(acall.text)) \in files

\* C29: text_to_speech with a non-blank text and a format that is neither
\* wav nor mp3 (the name compared as the code compares it, lower-cased)
\* raises only when the TTS request itself failed: the unsupported format is
\* never what the caller gets, the conversion fallback returns a file that
\* holds the MP3.  When mp3 is asked for, the MP3 written by the TTS call is
\* returned as it is, under its own name, at normal speed whatever the
\* speed asked for, and no other file is written.
C29_UnsupportedFormatReturnsMp3 ==
    (acall # NoCall /\ acall.service = "AudioService" /\ StripIsNonEmpty(acall.text)) =>
        /\ FormatLower(acall.output_format) \notin {"wav", "mp3"} =>
              /\ acall.result.kind = "raise" <=> acall.world.tts # "ok"
              /\ acall.world.tts = "ok" =>
                    /\ acall.result.kind = "path"
                    /\ acall.result.name.ext = "mp3"
                    /\ File(acall.result.name, Mp3Of(acall.text)) \in files
        /\ (FormatLower(acall.output_format) = "mp3" /\ acall.world.tts = "ok") =>
              /\ acall.result = Path(Name("temp_audio", "mp3"))
              /\ files = {File(Name("temp_audio", "mp3"),
                               [format |-> "mp3", text |-> acall.text, speed |-> NormalSpeed])}

\* ogg was asked for at speed 1.5 with everything working: the renamed MP3
\* came back, at normal speed.
C29_Witness ==
    /\ acall # NoCall /\ acall.service = "AudioService"
    /\ acall.output_format = "ogg" /\ acall.speed = 15
    /\ acall.world.tts = "ok" /\ acall.world.decode /\ acall.world.speedup
    /\ acall.world.export /\ acall.world.rename
    /\ acall.result = Path(Name("audio", "mp3"))
    /\ files = {File(Name("audio", "mp3"), Mp3Of(acall.text))}

-----------------------------------------------------------------------------
(* Claims about image_utils.py, checked under SpecUtils.                   *)

BudgetBytes(b) == (b.quarters * BytesPerMb) \div 4

\* C4: for every image and every budget B, optimize_image_for_api returns
\* bytes of length <= B whenever some quality from 95 down to the floor 20
\* encodes within B; otherwise it still returns non-empty bytes (those of
\* the resize fallback, whose length may exceed B).
C4_FitsBudgetWhenQualityCan ==
    (call.op = "optimize_image_for_api" /\ call.budget.finite) =>
        IF \E q \in TriedQualities \cup {QualityFloor} :
               call.image.enc[q] <= BudgetBytes(call.budget)
        THEN call.result.kind = "bytes" /\ call.result.len <= BudgetBytes(call.budget)
        ELSE /\ call.result.kind = "bytes"
             /\ call.result.len > 0

\* C5: optimize_image_for_api returns bytes for every image of any colour
\* mode and every budget, also when an encoding step raises; it never raises
\* to its caller.
C5_AlwaysReturnsBytes ==
    call.op = "optimize_image_for_api" => call.result.kind = "bytes"

\* C6: for every image and every max_size, resize_image returns an image no
\* larger than max_size in either dimension, and an image already within
\* both bounds keeps its dimensions.
C6_ResizeWithinBounds ==
    call.op = "resize_image" =>
        /\ call.result.w <= call.max_size[1]
        /\ call.result.h <= call.max_size[2]
        /\ (call.image.w <= call.max_size[1] /\ call.image.h <= call.max_size[2])
               => (call.result.w = call.image.w /\ call.result.h = call.image.h)

LoopQualities == {95, 85, 75, 65, 55, 45, 35, 25}

Fits(c, q) == c.image.enc[q] <= BudgetBytes(c.budget)

\* No call of image.save raised: the mode is one the JPEG writer takes and
\* the encoder did not give up at a quality that was reached.
NoEncodingRaised(c) ==
    /\ JpegWritable(c.image.mode)
    /\ \A i \in 1..Len(c.encoded) : c.image.optFailAt # c.encoded[i]
    /\ (\A q \in LoopQualities : ~Fits(c, q)) => c.image.optFailAt # 80

\* C21: when no encoding raises, optimize_image_for_api encodes at 95, 85,
\* ..., in steps of 10 and no lower than 25 (at most 8 encodings), measures
\* each encoding, and returns the first one that fits the budget: the
\* encoding at the highest of the qualities 95..25 that fits; it encodes
\* nothing after a fit, and resizes only when none of the eight fits.
C21_FirstFittingQuality ==
    (call.op = "optimize_image_for_api" /\ call.budget.finite /\ NoEncodingRaised(call)) =>
        /\ Len(call.encoded) >= 1 /\ Len(call.encoded) <= 8
        /\ call.encoded[1] = 95
        /\ \A i \in 1..(Len(call.encoded) - 1) :
               /\ call.encoded[i + 1] = call.encoded[i] - 10
               /\ ~Fits(call, call.encoded[i])
        /\ call.encoded[Len(call.encoded)] >= 25
        /\ call.result.kind = "bytes"
        /\ IF \E q \in LoopQualities : Fits(call, q)
           THEN /\ call.result.path = "loop"
                /\ call.result.quality = call.encoded[Len(call.encoded)]
                /\ Fits(call, call.result.quality)
                /\ \A q \in LoopQualities : Fits(call, q) => q <= call.result.quality
                /\ call.result.len = call.image.enc[call.result.quality]
           ELSE /\ Len(call.encoded) = 8
                /\ call.result.path = "resize"

\* An image that fits 2 MB from quality 55 down: five encodings, the last
\* one returned.
C21_Witness ==
    /\ call.op = "optimize_image_for_api"
    /\ call.budget = Budget(8)
    /\ NoEncodingRaised(call)
    /\ call.encoded = <<95, 85, 75, 65, 55>>
    /\ call.result = Bytes(SmallLen, 55, "loop")

\* C7: validate_image returns True exactly when the image is not None, both
\* dimensions are at least 10, the pixel count is at most 100,000,000, the
\* mode is one of RGB, RGBA, L, P, 1 and the pixel data loads; otherwise it
\* returns False.
C7_ValidateExactly ==
    call.op = "validate_image" =>
        (call.result = TRUE) <=>
            /\ ~call.image.none
            /\ call.image.w >= 10 /\ call.image.h >= 10
            /\ call.image.w * call.image.h <= 100000000
            /\ call.image.mode \in {"RGB", "RGBA", "L", "P", "1"}
            /\ call.image.loadOK

\* An image of exactly 10 x 10000 pixels is accepted, and one of
\* 10000 x 10000 = 100,000,000 pixels has been through the function too.
C7_Witness ==
    /\ call.op = "validate_image"
    /\ call.result = TRUE
    /\ call.image.w = 10 /\ call.image.h = 10000

-----------------------------------------------------------------------------
(* Claims about the whole session, checked under Spec.                     *)

PassesUploadChecks(image) ==
    /\ image.w >= 10
    /\ image.h >= 10
    /\ image.w * image.h <= 100000000

\* The last click made a call of an external API with the image of its tab.
CalledWithCaptionImage == turn.op = "generate_analysis" /\ turn.api_calls > 0

CalledWithChatImage ==
    /\ turn.api_calls > 0
    /\ \/ turn.op = "get_suggested_questions"
       \/ turn.op = "send_message" /\ turn.image_uploaded

\* C11: in every session state the stored image of each tab (current_image,
\* chat_image) is absent or has both dimensions >= 10 and at most
\* 100,000,000 pixels, so every external call made with an image is made
\* with one that passed the checks.
C11_StoredImagesPassChecks ==
    /\ image_uploaded <=> current_image # NoImage
    /\ chat_image_uploaded <=> chat_image # NoImage
    /\ image_uploaded => PassesUploadChecks(current_image)
    /\ chat_image_uploaded => PassesUploadChecks(chat_image)
    /\ CalledWithCaptionImage => (image_uploaded /\ PassesUploadChecks(current_image))
    /\ CalledWithChatImage => (chat_image_uploaded /\ PassesUploadChecks(chat_image))

\* Both tabs hold an image and an analysis call was made with the caption
\* tab's; the uploaders were offered the refused files as well.
C11_Witness ==
    /\ image_uploaded
    /\ chat_image_uploaded
    /\ CalledWithCaptionImage

AnalysisMethods ==
    {"generate_caption", "identify_location", "identify_product",
     "comprehensive_analysis", "extract_text_and_details"}

-----------------------------------------------------------------------------
(* Claims about the analysis and chat clients, checked under SpecGemini.   *)

HttpClients == {"GeminiFallbackService", "ChatbotFallbackService"}

\* The placeholder each operation of the HTTP clients returns for "no result".
NoResultPlaceholder(service, op) ==
    IF service = "GeminiFallbackService"
    THEN IF op = "generate_caption" THEN "Sorry, I couldn't generate a caption at this time."
         ELSE IF op = "identify_location" THEN "Location analysis failed"
         ELSE IF op = "identify_product" THEN "Product analysis failed"
         ELSE IF op = "comprehensive_analysis" THEN "Comprehensive analysis failed"
         ELSE "Text extraction failed"
    ELSE IF op = "chat_with_image"
         THEN "I'm sorry, I couldn't process your question about the image."
         ELSE IF op = "chat_without_image" THEN "I'm sorry, I couldn't process your question."
         ELSE IF op = "analyze_location_context"
         THEN "I couldn't analyze the location context in this image."
         ELSE "I couldn't analyze the product context in this image."

\* C13 as stated: in the HTTP clients a JSON response that lacks any
\* element of candidates[0].content.parts[0].text is "no result": the
\* operation returns its no-result placeholder and does not raise.
C13_MissingPathIsNoResult ==
    (gcall # NoCall /\ gcall.service \in HttpClients
        /\ gcall.upstream = "json" /\ gcall.response # FullPath) =>
            /\ gcall.result.kind = "return"
            /\ gcall.result.text = NoResultPlaceholder(gcall.service, gcall.op)

FailureMessage(op) ==
    IF op = "identify_location" THEN "Location analysis failed: "
    ELSE IF op = "identify_product" THEN "Product analysis failed: "
    ELSE IF op = "comprehensive_analysis" THEN "Comprehensive analysis failed: "
    ELSE "Text extraction failed: "

TextField(op) ==
    IF op = "identify_location" THEN "location_analysis"
    ELSE IF op = "identify_product" THEN "product_analysis"
    ELSE IF op = "comprehensive_analysis" THEN "comprehensive_analysis"
    ELSE "text_analysis"

UpstreamFailures == {"bad_image", "request_raises", "no_text"}

\* C14: for each of the four specialised analyses of GeminiService, bytes
\* that cannot be opened, a request that raises and a response whose text
\* cannot be read all give a returned result with success = false and the
\* failure message of the analysis in its text field; nothing is raised.
C14_UpstreamFailureIsCaught ==
    (gcall # NoCall /\ gcall.service = "GeminiService"
        /\ gcall.op \in SpecialisedKinds /\ gcall.upstream \in UpstreamFailures) =>
            /\ gcall.result.kind = "return"
            /\ gcall.result.success = FALSE
            /\ gcall.result.field = TextField(gcall.op)
            /\ gcall.result.text = FailureMessage(gcall.op)

\* extract_text_and_details on bytes that are not an image.
C14_Witness ==
    /\ gcall # NoCall
    /\ gcall.service = "GeminiService"
    /\ gcall.op = "extract_text_and_details"
    /\ gcall.upstream = "bad_image"
    /\ gcall.result = Returned("text_analysis", "Text extraction failed: ", FALSE)

\* C16 as stated: with GeminiService and with GeminiFallbackService alike,
\* the result of each specialised analysis carries its text field and a
\* success flag, on success and on failure.
C16_ResultCarriesTextAndSuccess ==
    (gcall # NoCall /\ gcall.service \in {"GeminiService", "GeminiFallbackService"}
        /\ gcall.op \in SpecialisedKinds) =>
            /\ gcall.result.kind = "return"
            /\ gcall.result.field = TextField(gcall.op)
            /\ "text" \in DOMAIN gcall.result
            /\ "success" \in DOMAIN gcall.result

NamedStyles == {"descriptive", "creative", "technical", "simple"}

\* The entry of style_prompts a style name selects in each client.
PromptOf(service, style) ==
    IF service = "GeminiService" THEN StylePrompt(style) ELSE FallbackStylePrompt(style)

CaptionCall == gcall # NoCall /\ gcall.op = "generate_caption"

-----------------------------------------------------------------------------
(* Claims about ChatbotService, checked under SpecChatbot.                 *)

ChatPlaceholders ==
    { <<"I apologize, but I couldn't generate a response. Please try again.">>,
      <<"I couldn't analyze the location in this image.">>,
      <<"I couldn't analyze the products in this image.">> }

ChatErrors ==
    { <<"Sorry, I encountered an error: ">>,
      <<"Sorry, I encountered an error analyzing the location: ">>,
      <<"Sorry, I encountered an error analyzing the products: ">> }

\* C15: chat_with_image, chat_without_image, analyze_location_context and
\* analyze_product_context return a string for every upstream outcome: the
\* answer, a placeholder when the text is empty, an error string when
\* anything raised; they never raise.
C15_AnswerIsAlwaysAString ==
    (gcall # NoCall /\ gcall.service = "ChatbotService") =>
        /\ gcall.op \in ChatKinds
        /\ gcall.result.kind = "return"
        /\ gcall.upstream = "text" => gcall.result.text = AnswerText
        /\ gcall.upstream = "empty" => gcall.result.text \in ChatPlaceholders
        /\ gcall.upstream \in UpstreamFailures => gcall.result.text \in ChatErrors

\* analyze_product_context with a request that raises: its error string.
C15_Witness ==
    /\ gcall # NoCall
    /\ gcall.service = "ChatbotService"
    /\ gcall.op = "analyze_product_context"
    /\ gcall.upstream = "request_raises"
    /\ gcall.result.kind = "return"
    /\ gcall.result.text = <<"Sorry, I encountered an error analyzing the products: ">>

-----------------------------------------------------------------------------
(* Claims about ServiceFactory, checked under SpecFactory.                 *)

NeedsKey(c) ==
    \/ c.op = "construct" /\ c.kind \in {"GeminiService", "ChatbotService"}
    \/ c.op = "get" /\ c.kind = "gemini" /\ ~c.cached
    \/ c.op = "get" /\ c.kind = "chatbot" /\ ~c.cached

\* The call just made is a get of a kind whose class could be imported (the
\* Gemini one always has a class).
GetOfAvailable(c) ==
    /\ c.op = "get"
    /\ c.kind = "audio" => package.AUDIO_AVAILABLE
    /\ c.kind = "chatbot" => package.CHATBOT_AVAILABLE

\* C18: with GEMINI_API_KEY unset or empty, constructing GeminiService or
\* ChatbotService, and getting either from the factory (the substitute
\* Gemini client included), raises; a get that raised leaves no instance of
\* that kind in the cache; and a get made with the key in the environment
\* returns an instance, constructed then unless one was cached.
C18_NoKeyNoInstance ==
    fcall # NoCall =>
        /\ (NeedsKey(fcall) /\ KeyMissing(fcall.env)) =>
               (fcall.result = "raise" /\ fcall.instance = NoInstance)
        /\ (NeedsKey(fcall) /\ KeyMissing(fcall.env) /\ GetOfAvailable(fcall)) =>
               fcall.error = "ValueError"
        /\ (fcall.op = "get" /\ fcall.result = "raise") =>
               instances[fcall.kind] = NoInstance
        /\ (GetOfAvailable(fcall) /\ ~KeyMissing(fcall.env)) =>
               (fcall.result = "instance" /\ instances[fcall.kind] = fcall.instance)

\* The substitute Gemini client asked for without a key: ValueError, and
\* nothing cached.
C18_Witness ==
    /\ fcall # NoCall
    /\ fcall.op = "get" /\ fcall.kind = "gemini"
    /\ ~package.GEMINI_AVAILABLE
    /\ fcall.env = "empty"
    /\ fcall.error = "ValueError"
    /\ instances["gemini"] = NoInstance
    /\ constructed > 0

GetStep == fcall' # fcall /\ fcall'.op = "get"

\* C20: a get of a kind that is cached returns the cached instance and
\* constructs nothing; a get of a kind that is not cached, when it
\* succeeds, constructs one new instance and caches it; clear_instances
\* empties the cache.
C20_GetOrCreate ==
    [][ /\ (GetStep /\ instances[fcall'.kind] # NoInstance) =>
              /\ fcall'.result = "instance"
              /\ fcall'.cached
              /\ fcall'.instance = instances[fcall'.kind]
              /\ instances' = instances
              /\ constructed' = constructed
        /\ (GetStep /\ instances[fcall'.kind] = NoInstance /\ fcall'.result = "instance") =>
              /\ ~fcall'.cached
              /\ fcall'.instance.id = constructed + 1
              /\ constructed' = constructed + 1
              /\ instances' = [instances EXCEPT ![fcall'.kind] = fcall'.instance]
        /\ (GetStep /\ fcall'.result = "raise") =>
              /\ instances' = instances
              /\ constructed' = constructed
        /\ (fcall' # fcall /\ fcall'.op = "clear_instances") =>
              \A kind \in ServiceKinds : instances'[kind] = NoInstance
      ]_vars

\* The third instance made was made by a get, after two others: the cache
\* had been cleared, or held other kinds.
C20_Witness ==
    /\ fcall # NoCall
    /\ fcall.op = "get"
    /\ fcall.result = "instance"
    /\ ~fcall.cached
    /\ fcall.instance.id = 3
    /\ instances[fcall.kind] = fcall.instance
    /\ \A kind \in ServiceKinds \ {fcall.kind} : instances[kind] = NoInstance

-----------------------------------------------------------------------------
(* A claim about the caption tab, checked under Spec.                      *)

AnalysisFailureMessages ==
    {FailureMessage(op) : op \in SpecialisedKinds}

\* C19 as stated: the caption tab marks a result as a generated caption
\* (caption_generated) and offers it for narration only when the analysis
\* did not fail: the stored caption is never the failure message of an
\* analysis, and neither is a narrated text.
C19_FailedAnalysisIsNotACaption ==
    /\ caption_generated => generated_caption \notin AnalysisFailureMessages
    /\ audio_generated =>
           \A message \in AnalysisFailureMessages : final_caption # <<message>>

-----------------------------------------------------------------------------
(* Claims about the routing of a chat message, checked under Spec.         *)

\* The last click sent a non-blank message.
Sent == turn.sent /\ ~turn.blank

HasLocationKeyword == AnyKeyword(lower(turn.question), location_keywords)
HasProductKeyword == AnyKeyword(lower(turn.question), product_keywords)

C23_NoImageNoKeywordRouting ==
    /\ (Sent /\ ~turn.image_uploaded) =>
           /\ turn.dispatched = {"chat_without_image"}
           /\ turn.request.template = "chat_without_image"
           /\ ~turn.request.image
           /\ turn.prepared = "none"
    /\ (turn.sent /\ turn.dispatched \cap {"analyze_location_context",
                                            "analyze_product_context"} # {}) =>
           turn.image_uploaded

\* "Where is this? BUY" sent without an image.
C23_Witness ==
    /\ Sent /\ ~turn.image_uploaded
    /\ HasLocationKeyword /\ HasProductKeyword
    /\ turn.dispatched = {"chat_without_image"}

-----------------------------------------------------------------------------
(* Claims about the session state, checked under Spec.                     *)

\* C24 as stated: the chat history alternates user, assistant, user,
\* assistant, ...: its length is even, the messages at odd places are the
\* user's and those at even places the assistant's.
C24_HistoryAlternates ==
    /\ Len(chat_history) % 2 = 0
    /\ \A i \in 1..Len(chat_history) :
           chat_history[i].role = IF i % 2 = 1 THEN "user" ELSE "assistant"

\* C25: audio_generated implies caption_generated, and caption_generated
\* implies image_uploaded (with an image stored that passed the checks).
C25_FlagsInOrder ==
    /\ audio_generated => caption_generated
    /\ caption_generated => image_uploaded
    /\ image_uploaded => PassesUploadChecks(current_image)
    /\ audio_generated => audio_file # NoAudioFile
    /\ caption_generated => generated_caption # Absent

\* A session that has narrated a caption.
C25_Witness ==
    /\ audio_generated /\ caption_generated /\ image_uploaded
    /\ turn.op = "generate_audio" /\ ~turn.raised

-----------------------------------------------------------------------------
(* Claims about what a chat request carries.                               *)

SpecialisedTemplates == {"analyze_location_context", "analyze_product_context"}

\* C26: a question routed to the location or the product template is sent
\* with the image and without any of the earlier conversation, however long
\* the history is; a request that carries conversation context is one of
\* chat_with_image or chat_without_image, and those carry the context of the
\* history whenever there is one.
C26_SpecialisedRequestsCarryNoHistory ==
    (Sent /\ turn.api_calls = 1) =>
        /\ turn.request.template \in SpecialisedTemplates =>
              /\ turn.request.context = <<>>
              /\ turn.request.question = turn.question
              /\ turn.request.image
        /\ turn.request.context # <<>> =>
              turn.request.template \in {"chat_with_image", "chat_without_image"}
        /\ (turn.request.template \notin SpecialisedTemplates /\ turn.history_before # <<>>) =>
              turn.request.context # <<>>

\* A location question asked after two earlier exchanges.
C26_Witness ==
    /\ Sent /\ turn.api_calls = 1
    /\ turn.request.template = "analyze_location_context"
    /\ Len(turn.history_before) >= 4
    /\ turn.request.context = <<>>

-----------------------------------------------------------------------------
(* Claims about what a failed or empty click leaves alone.                 *)

CaptionState == <<generated_caption, caption_generated, analysis_type>>

\* C27: a click on "Generate Analysis" that fails by raising, in the
\* preparation of the image or in generate_caption, leaves the caption, the
\* caption_generated flag and the analysis type as they were; whenever one
\* of the three changes, the click made its call, the call returned, and
\* all three hold the values of that click.
C27_FailedAnalysisKeepsCaptionState ==
    [][ /\ (turn'.op = "generate_analysis" /\ turn'.raised) => UNCHANGED CaptionState
        /\ CaptionState' # CaptionState =>
              /\ turn'.op = "generate_analysis" /\ ~turn'.raised
              /\ turn'.api_calls = 1
              /\ generated_caption' # Absent
              /\ caption_generated'
              /\ analysis_type' \in AnalysisTypes
              /\ turn'.dispatched = Dispatch(analysis_type') ]_vars

\* A caption request that raised after an analysis of another type had
\* been stored: the stored analysis is still there.
C27_Witness ==
    /\ turn.op = "generate_analysis" /\ turn.raised
    /\ turn.dispatched = {"generate_caption"}
    /\ caption_generated
    /\ analysis_type = "Location Analysis"
    /\ generated_caption # Absent

\* C28: a click on "Clear Chat" empties the chat history and removes the
\* suggested questions and changes nothing else of the session: the chat
\* image and its flag, the caption state and the narration state stay; the
\* next message sent with a chat image in place is answered on the
\* with-image path, with an empty context.
C28_ClearChatClearsOnlyTheChat ==
    [][ /\ (turn.op # "clear_chat" /\ turn'.op = "clear_chat") =>
              /\ chat_history' = <<>>
              /\ suggested_questions' = NoSuggestions
              /\ UNCHANGED <<chat_image, chat_image_uploaded, captionVars, narrationVars>>
        /\ (turn.op = "clear_chat" /\ turn'.sent /\ ~turn'.blank /\ chat_image_uploaded) =>
              /\ turn'.history_before = <<>>
              /\ turn'.image_uploaded
              /\ turn'.prepared # "none"
              /\ turn'.api_calls = 1 =>
                    /\ turn'.request.template # "chat_without_image"
                    /\ turn'.request.image
                    /\ turn'.request.context = <<>> ]_vars

\* The session just after a clearing, with a chat image, an analysis and a
\* narration in place.
C28_Witness ==
    /\ turn.op = "clear_chat"
    /\ chat_history = <<>> /\ suggested_questions = NoSuggestions
    /\ chat_image_uploaded
    /\ caption_generated /\ audio_generated

\* C30: a click on "Send Message" with an empty or whitespace-only message
\* changes nothing in the session: the chat history, the chat image, the
\* suggested questions, the caption state and the narration state stay as
\* they were, no image is prepared and no client method is called.
C30_BlankMessageChangesNothing ==
    [][ (turn' # turn /\ turn'.sent
            /\ \A i \in 1..Len(turn'.question) : turn'.question[i] \in Whitespace) =>
          /\ UNCHANGED <<chat_history, chat_image, chat_image_uploaded,
                         suggested_questions, captionVars, narrationVars>>
          /\ turn'.history_before = chat_history
          /\ turn'.prepared = "none"
          /\ turn'.request = NoRequest
          /\ turn'.dispatched = {}
          /\ turn'.api_calls = 0
          /\ ~turn'.raised ]_vars

\* Two blanks sent in a conversation that has messages and a chat image.
C30_Witness ==
    /\ turn.sent /\ turn.blank
    /\ turn.question = QBlank
    /\ chat_image_uploaded
    /\ chat_history # <<>>
    /\ turn.history_before = chat_history
    /\ turn.api_calls = 0

====
